---- MODULE Spec2Model ----
(***************************************************************************)
(* Versioned Translator (versioned_translator/logic.py): the document      *)
(* hooks, the translation job, the Translation Store writers and the       *)
(* version identifier, as state machines over the host framework's         *)
(* database, task queue and translation provider.                          *)
(*                                                                         *)
(* Four specifications share the module:                                   *)
(*   Spec      the store writers and the job, one call after the other     *)
(*   SpecHooks on_doc_load and on_doc_update                               *)
(*   SpecVid   get_version_id on pairs of documents                        *)
(*   SpecConc  two workers inside save_translation_to_store at once        *)
(*                                                                         *)
(* Host calls (frappe.db.*, frappe.get_doc, frappe.enqueue, requests.post) *)
(* may raise; which of them does is an input of the action that runs the   *)
(* handler.  frappe.log_error and frappe.db.rollback, the calls the        *)
(* except-blocks themselves make, are taken to return.                     *)
(***************************************************************************)
EXTENDS Naturals, Sequences, FiniteSets, TLC

VARIABLES db, docs, now, job, last, hook, queue, vid, conc

vars == <<db, docs, now, job, last, hook, queue, vid, conc>>

\* ------------------------------------------------------------------ bounds
\* Seconds of wall-clock time after 2024-01-01 10:00:00 that the model spans.
MaxTime == 1
\* Rows the Translation Store may hold before the model stops inserting.
MaxRows == 2
\* Jobs the task queue may hold before the model stops enqueueing.
MaxQueue == 2

\* ------------------------------------------------------------------ values
DocTypes == {"Article", "Note"}
DocNames == {"A1", "A2"}

Seconds == 0 .. MaxTime
Micros == {"000000", "500000"}

DigitStr == <<"0", "1", "2", "3", "4", "5", "6", "7", "8", "9">>

\* doc.modified: a datetime (as frappe.get_doc loads it), a string (as the
\* host sets it on a document being saved), or absent.
NoModified == [kind |-> "none"]
DateTimes == [kind : {"datetime"}, sec : Seconds, usec : Micros]
TimeStrings == [kind : {"str"}, sec : Seconds, usec : Micros]
Modifieds == DateTimes \cup TimeStrings \cup {NoModified}

\* datetime.strftime("%Y%m%d%H%M%S"): second precision, microseconds dropped.
Strftime(sec) == "2024010110000" \o DigitStr[sec + 1]

\* str(doc.modified) of a timestamp string: the string itself, microseconds kept.
StrOf(m) == "2024-01-01 10:00:0" \o DigitStr[m.sec + 1] \o "." \o m.usec

\* hashlib.md5(version_string.encode()).hexdigest()[:12], tabulated from
\* hashlib for every version string the model can build.
Md5Hex12(s) ==
  CASE  s = "Article_A1_20240101100000" -> "8f23dc131b69"
    []       s = "Article_A1_2024-01-01 10:00:00.000000" -> "c4f967b3314d"
    []       s = "Article_A1_2024-01-01 10:00:00.500000" -> "74788ab3f0a3"
    []       s = "Article_A1_20240101100001" -> "32e9cb8f2c4a"
    []       s = "Article_A1_2024-01-01 10:00:01.000000" -> "66e223a01933"
    []       s = "Article_A1_2024-01-01 10:00:01.500000" -> "715f15daa14e"
    []       s = "Article_A1_20240101100002" -> "d3494bfa180b"
    []       s = "Article_A1_2024-01-01 10:00:02.000000" -> "e972b50e0d94"
    []       s = "Article_A1_2024-01-01 10:00:02.500000" -> "e23d8a15414a"
    []       s = "Article_A1_20240101100003" -> "7f0d42eccba5"
    []       s = "Article_A1_2024-01-01 10:00:03.000000" -> "f38c4686a46e"
    []       s = "Article_A1_2024-01-01 10:00:03.500000" -> "1108fd3c6fc7"
    []       s = "Article_A1_20240101100004" -> "a7b19c3d2582"
    []       s = "Article_A1_2024-01-01 10:00:04.000000" -> "246cabdff913"
    []       s = "Article_A1_2024-01-01 10:00:04.500000" -> "ebeb5b59aabd"
    []       s = "Article_A2_20240101100000" -> "9e10cc049d5b"
    []       s = "Article_A2_2024-01-01 10:00:00.000000" -> "d35dc4822318"
    []       s = "Article_A2_2024-01-01 10:00:00.500000" -> "ac2e03f50032"
    []       s = "Article_A2_20240101100001" -> "4d664bf0b357"
    []       s = "Article_A2_2024-01-01 10:00:01.000000" -> "c77596152da6"
    []       s = "Article_A2_2024-01-01 10:00:01.500000" -> "deeeb907d577"
    []       s = "Article_A2_20240101100002" -> "0e941b930657"
    []       s = "Article_A2_2024-01-01 10:00:02.000000" -> "60e9a83cbadf"
    []       s = "Article_A2_2024-01-01 10:00:02.500000" -> "0c0c0045396b"
    []       s = "Article_A2_20240101100003" -> "585580ef8d8e"
    []       s = "Article_A2_2024-01-01 10:00:03.000000" -> "a0f623b5da35"
    []       s = "Article_A2_2024-01-01 10:00:03.500000" -> "a91c3fda3b4c"
    []       s = "Article_A2_20240101100004" -> "64c869d9c9cb"
    []       s = "Article_A2_2024-01-01 10:00:04.000000" -> "bc5889b80ae2"
    []       s = "Article_A2_2024-01-01 10:00:04.500000" -> "b3d6cc862d18"
    []       s = "Note_A1_20240101100000" -> "364967d0dd1a"
    []       s = "Note_A1_2024-01-01 10:00:00.000000" -> "9d0955e6e813"
    []       s = "Note_A1_2024-01-01 10:00:00.500000" -> "66a26187d43b"
    []       s = "Note_A1_20240101100001" -> "42fe270456f3"
    []       s = "Note_A1_2024-01-01 10:00:01.000000" -> "3ef9e96b42e0"
    []       s = "Note_A1_2024-01-01 10:00:01.500000" -> "ed3158488978"
    []       s = "Note_A1_20240101100002" -> "f7e0d9765ac5"
    []       s = "Note_A1_2024-01-01 10:00:02.000000" -> "b4932d66875a"
    []       s = "Note_A1_2024-01-01 10:00:02.500000" -> "e9febbfeeb9e"
    []       s = "Note_A1_20240101100003" -> "9fec66a67014"
    []       s = "Note_A1_2024-01-01 10:00:03.000000" -> "9e3dd0fab7e3"
    []       s = "Note_A1_2024-01-01 10:00:03.500000" -> "0ae141b16682"
    []       s = "Note_A1_20240101100004" -> "f753fe4aeab2"
    []       s = "Note_A1_2024-01-01 10:00:04.000000" -> "0ab59257edfd"
    []       s = "Note_A1_2024-01-01 10:00:04.500000" -> "93488cc7c1a1"
    []       s = "Note_A2_20240101100000" -> "e7b35d2315ec"
    []       s = "Note_A2_2024-01-01 10:00:00.000000" -> "a92f8d6cc106"
    []       s = "Note_A2_2024-01-01 10:00:00.500000" -> "3de265e21980"
    []       s = "Note_A2_20240101100001" -> "d21c20c78019"
    []       s = "Note_A2_2024-01-01 10:00:01.000000" -> "7150c2b64ce7"
    []       s = "Note_A2_2024-01-01 10:00:01.500000" -> "7333a68d4a12"
    []       s = "Note_A2_20240101100002" -> "6d1383e86f4a"
    []       s = "Note_A2_2024-01-01 10:00:02.000000" -> "e29aa0f02c69"
    []       s = "Note_A2_2024-01-01 10:00:02.500000" -> "6d25488887df"
    []       s = "Note_A2_20240101100003" -> "e726a02086b4"
    []       s = "Note_A2_2024-01-01 10:00:03.000000" -> "838afba17630"
    []       s = "Note_A2_2024-01-01 10:00:03.500000" -> "adeee1fb5e9c"
    []       s = "Note_A2_20240101100004" -> "95fec2c71a12"
    []       s = "Note_A2_2024-01-01 10:00:04.000000" -> "2f9ed60f1aa0"
    []       s = "Note_A2_2024-01-01 10:00:04.500000" -> "d5c8d8f32908"

\* modified_str of get_version_id.
ModifiedStr(m) == IF m.kind = "datetime" THEN Strftime(m.sec) ELSE StrOf(m)

\* A mutant of get_version_id: the timestamp is left out of the hashed string.
get_version_id_no_modified(doctype, name, modified, clock) ==
  IF modified.kind # "none"
    THEN name \o "_" \o Md5Hex12(doctype \o "_" \o name \o "_" \o Strftime(0))
    ELSE name \o "_" \o Strftime(clock)

\* get_version_id(doc); clock is what datetime.now() returns, in seconds.
get_version_id(doctype, name, modified, clock) ==
  IF modified.kind # "none"
    THEN name \o "_" \o Md5Hex12(doctype \o "_" \o name \o "_" \o ModifiedStr(modified))
    ELSE name \o "_" \o Strftime(clock)


\* ------------------------------------------------------------------ strings
\* str.strip(), str.upper() and str.lower() on the language tokens of the model.
Strip(t) ==
  CASE t = " fr " -> "fr"
    [] t = " " -> ""
    [] OTHER -> t

Upper(t) ==
  CASE t = "en" -> "EN"
    [] t = "fr" -> "FR"
    [] t = "de" -> "DE"
    [] OTHER -> t

Lower(t) ==
  CASE t = "EN" -> "en"
    [] t = "FR" -> "fr"
    [] t = "DE" -> "de"
    [] OTHER -> t

RECURSIVE JsonItems(_)
JsonItems(d) ==
  IF Len(d) = 0 THEN ""
  ELSE "\"" \o d[1][1] \o "\": \"" \o d[1][2] \o "\""
       \o (IF Len(d) > 1 THEN ", " ELSE "") \o JsonItems(Tail(d))

\* json.dumps of a dict of strings; the dict is its items in insertion order.
JsonDumps(d) == "{" \o JsonItems(d) \o "}"

\* ------------------------------------------------------------------ database
\* The Translation Store as one connection sees it: the committed rows and the
\* connection's working copy, which holds its uncommitted writes as well.
NoName == <<>>

Key(doctype, docname, version_id, language) ==
  [parent_doctype |-> doctype, parent_name |-> docname,
   version_id |-> version_id, language |-> language]

KeyOf(r) == Key(r.parent_doctype, r.parent_name, r.version_id, r.language)

Matches(rows, k) == {r \in rows : KeyOf(r) = k}

\* A mutant of GetValue: the lookup never finds the row.
GetValueNeverFinds(rows, k) == {NoName}

\* frappe.db.get_value("Translation Store", {...}, "name"): the name of a row
\* that matches, or None; which one, when several match, is the database's choice.
GetValue(rows, k) ==
  IF Matches(rows, k) = {} THEN {NoName} ELSE {r.name : r \in Matches(rows, k)}

\* The name the host gives a new row: no naming rule ties it to the key.
NewName(rows, k) ==
  <<k.parent_name, k.version_id, k.language, Cardinality(Matches(rows, k)) + 1>>

\* A mutant of Commit: the write is left uncommitted.
CommitOmitted(d) == d

\* frappe.db.commit()
Commit(d) == [committed |-> d.work, work |-> d.work]

\* frappe.db.rollback()
Rollback(d) == [committed |-> d.committed, work |-> d.committed]

Statuses == {"Completed", "Failed"}

\* What a store call meets: every host call returns, or the first one that
\* raises is the lookup, the save()/insert(), or the commit.
Outcomes == {"ok", "get_value_raises", "write_raises", "commit_raises"}

\* A mutant of SaveWrite: an existing row is not looked at and a row is inserted.
SaveWriteAlwaysInserts(rows, k, translated_content, existing, clock) ==
  rows \cup {[name |-> NewName(rows, k),
              parent_doctype |-> k.parent_doctype, parent_name |-> k.parent_name,
              version_id |-> k.version_id, language |-> k.language,
              translated_content |-> JsonDumps(translated_content),
              translation_status |-> "Completed", edit_mode |-> 0,
              last_translated |-> Strftime(clock)]}

\* A mutant of SaveWrite: the update branch keeps the stored content.
SaveWriteKeepsContent(rows, k, translated_content, existing, clock) ==
  IF existing # NoName
    THEN {IF r.name = existing
            THEN [r EXCEPT !.translation_status = "Completed",
                           !.last_translated = Strftime(clock)]
            ELSE r : r \in rows}
    ELSE SaveWriteAlwaysInserts(rows, k, translated_content, existing, clock)

\* save_translation_to_store, lines 253-273: update the row found, or insert.
SaveWrite(rows, k, translated_content, existing, clock) ==
  IF existing # NoName
    THEN {IF r.name = existing
            THEN [r EXCEPT !.translated_content = JsonDumps(translated_content),
                           !.translation_status = "Completed",
                           !.last_translated = Strftime(clock)]
            ELSE r : r \in rows}
    ELSE rows \cup {[name |-> NewName(rows, k),
                     parent_doctype |-> k.parent_doctype,
                     parent_name |-> k.parent_name,
                     version_id |-> k.version_id, language |-> k.language,
                     translated_content |-> JsonDumps(translated_content),
                     translation_status |-> "Completed", edit_mode |-> 0,
                     last_translated |-> Strftime(clock)]}

\* save_translation_to_store: the lookup has returned `existing` (or raised).
save_translation_to_store(d, k, translated_content, existing, outcome, clock) ==
  IF outcome \in {"get_value_raises", "write_raises"} THEN Rollback(d)
  ELSE LET w == [d EXCEPT !.work = SaveWrite(d.work, k, translated_content, existing, clock)]
       IN IF outcome = "commit_raises" THEN Rollback(w) ELSE Commit(w)

\* A mutant of StatusWrite: the update branch clears the content as well.
StatusWriteClearsContent(rows, k, status, existing) ==
  IF existing # NoName
    THEN {IF r.name = existing
            THEN [r EXCEPT !.translation_status = status, !.translated_content = "{}"]
            ELSE r : r \in rows}
    ELSE rows \cup {[name |-> NewName(rows, k),
                     parent_doctype |-> k.parent_doctype,
                     parent_name |-> k.parent_name,
                     version_id |-> k.version_id, language |-> k.language,
                     translated_content |-> "{}",
                     translation_status |-> status, edit_mode |-> 0,
                     last_translated |-> "None"]}

\* update_translation_status, lines 298-315: set the status of the row found,
\* or insert a row with content "{}".
StatusWrite(rows, k, status, existing) ==
  IF existing # NoName
    THEN {IF r.name = existing THEN [r EXCEPT !.translation_status = status] ELSE r
            : r \in rows}
    ELSE rows \cup {[name |-> NewName(rows, k),
                     parent_doctype |-> k.parent_doctype,
                     parent_name |-> k.parent_name,
                     version_id |-> k.version_id, language |-> k.language,
                     translated_content |-> "{}",
                     translation_status |-> status, edit_mode |-> 0,
                     last_translated |-> "None"]}

\* update_translation_status: the lookup has returned `existing` (or raised).
update_translation_status(d, k, status, existing, outcome) ==
  IF outcome \in {"get_value_raises", "write_raises"} THEN Rollback(d)
  ELSE LET w == [d EXCEPT !.work = StatusWrite(d.work, k, status, existing)]
       IN IF outcome = "commit_raises" THEN Rollback(w) ELSE Commit(w)

\* ------------------------------------------------------------------ documents
\* The documents the job is run for and the host saves.  Article A2 is known to
\* the model by its row in the store alone.
DocKeys == {<<"Article", "A1">>}

\* The attributes of the document the job is run for: body is empty and there
\* is no attribute "summary".
DocAttrs(docname) == [title |-> "Hallo", body |-> "", internal_id |-> "X1"]

\* ------------------------------------------------------------------ settings
\* get_translation_settings(): the dict built from the Single, or None when
\* frappe.get_single raises.  A string setting that is None or "" is "" here.
\* default_target_languages is held as its split(",") tokens: <<"">> is the
\* empty string and <<>> is None.
NoSettings == [none |-> TRUE]

TargetStrings == {<<>>, <<"">>, <<" ", "">>, <<"en", " fr ", "", "DE">>}

SettingsValues ==
  {NoSettings}
  \cup [api_key : {"", "K"}, enable_auto_translation : {0, 1},
        auto_translate_on_update : {0, 1}, default_source_language : {"", "en"},
        default_target_languages : TargetStrings]

\* What the job reads: the flags of the hooks play no part in it.
JobSettings ==
  {st \in SettingsValues :
     st = NoSettings
     \/ (st.enable_auto_translation = 1 /\ st.auto_translate_on_update = 1
         /\ st.default_source_language = ""
         /\ (st.api_key = "" => st.default_target_languages = <<"">>))}

\* ------------------------------------------------------------------ translation map
\* What frappe.db.get_value("Translation Map", {doctype_name, is_active: 1}, "name")
\* and frappe.get_doc find for a document type: no active map, or its mappings.
NoMap == [found |-> FALSE, field_mappings |-> <<>>]

FieldMapping(f, t) == [field_name |-> f, translate |-> t]

MapLookups ==
  {NoMap,
   [found |-> TRUE, field_mappings |-> <<>>],
   [found |-> TRUE, field_mappings |-> <<FieldMapping("internal_id", 0)>>],
   [found |-> TRUE,
    field_mappings |-> <<FieldMapping("title", 1), FieldMapping("internal_id", 0)>>],
   [found |-> TRUE,
    field_mappings |-> <<FieldMapping("title", 1), FieldMapping("body", 1),
                         FieldMapping("summary", 1)>>]}

\* ------------------------------------------------------------------ provider
\* What requests.post does: raises a RequestException, returns a body that
\* response.json() cannot parse, or returns a status code and a JSON body.
Texts == {"Hello"}

NoText == <<>>

Responses ==
  {[kind |-> "RequestException"], [kind |-> "json_raises"],
   [kind |-> "http", status_code |-> 500, body |-> [message |-> "quota"]],
   [kind |-> "http", status_code |-> 200, body |-> [message |-> "ok"]],
   [kind |-> "http", status_code |-> 200, body |-> [translations |-> <<>>]],
   [kind |-> "http", status_code |-> 200, body |-> [translations |-> <<NoText>>]],
   [kind |-> "http", status_code |-> 200, body |-> [translations |-> <<<<"">>>>]]}
  \cup {[kind |-> "http", status_code |-> 200, body |-> [translations |-> <<<<t>>>>]]
          : t \in Texts}

\* translate_text: the first translation's text (<<t>>), or None (<<>>).
translate_text(resp) ==
  IF resp.kind # "http" THEN NoText
  ELSE IF resp.status_code # 200 THEN NoText
  ELSE IF "translations" \in DOMAIN resp.body /\ Len(resp.body.translations) > 0
    THEN resp.body.translations[1]
    ELSE NoText

\* Python's truth of translate_text's result: neither None nor "".
Truthy(text) == text # NoText /\ text[1] # ""

\* ------------------------------------------------------------------ the job
RECURSIVE ParseTargets(_)
\* [lang.strip().upper() for lang in target_languages_str.split(",") if lang.strip()]
ParseTargets(tokens) ==
  IF Len(tokens) = 0 THEN <<>>
  ELSE (IF Strip(tokens[1]) # "" THEN <<Upper(Strip(tokens[1]))>> ELSE <<>>)
       \o ParseTargets(Tail(tokens))

RECURSIVE FieldsToTranslate(_, _)
\* Lines 129-134: the mapped fields with translate set that the document has,
\* with a non-empty value.
FieldsToTranslate(docname, field_mappings) ==
  IF Len(field_mappings) = 0 THEN <<>>
  ELSE LET fm == field_mappings[1]
           attrs == DocAttrs(docname)
       IN (IF fm.translate = 1 /\ fm.field_name \in DOMAIN attrs
              /\ attrs[fm.field_name] # ""
             THEN <<<<fm.field_name, attrs[fm.field_name]>>>>
             ELSE <<>>)
          \o FieldsToTranslate(docname, Tail(field_mappings))

\* Which host call of lines 93-126 raises, if any.
JobFailures == {"none", "get_doc_raises", "get_value_raises", "map_get_doc_raises"}

\* Lines 98-109: why the job returns on its settings, or "".
SettingsAbort(settings) ==
  IF settings = NoSettings \/ settings.api_key = "" THEN "no api key"
  ELSE IF settings.default_target_languages \in {<<>>, <<"">>} THEN "no target languages"
  ELSE ""

\* Lines 124-138: why the job returns on the map it loaded, or "".
MapAbort(docname, map) ==
  IF map.field_mappings = <<>> THEN "no active map"
  ELSE IF FieldsToTranslate(docname, map.field_mappings) = <<>> THEN "no fields"
  ELSE ""

\* The job: its locals, and what it has met so far: the content last stored
\* for each language (saved), the languages stored before another language
\* failed (hit), the languages no field of which came back translated
\* (provFailed) and those whose store call raised (storeFailed).
IdleJob ==
  [pc |-> "idle", doctype |-> "", docname |-> "", version_id |-> "",
   target_languages |-> <<>>, idx |-> 1, fields_to_translate |-> <<>>,
   error |-> "", saved |-> {}, hit |-> {}, provFailed |-> {}, storeFailed |-> {}]

NoKey == Key("", "", "", "")

\* The last call made: what it was, its arguments, whether it committed
\* ("ok") or a host call raised, the row its lookup found, and whether the call
\* before it was a committed save under the same key, with the "same" content
\* or "other" content.
NoCall ==
  [op |-> "none", k |-> NoKey, arg |-> "", outcome |-> "ok", existing |-> NoName,
   prev |-> "none"]

RECURSIVE TranslatedFields(_, _)
\* Lines 148-152: the fields whose translation came back non-empty.
TranslatedFields(fields, resps) ==
  IF Len(fields) = 0 THEN <<>>
  ELSE (IF Truthy(translate_text(resps[1]))
          THEN <<<<fields[1][1], translate_text(resps[1])[1]>>>>
          ELSE <<>>)
       \o TranslatedFields(Tail(fields), Tail(resps))

\* A mutant of JobKey: the row is keyed without the version id.
JobKeyNoVersion(j, target_lang) == Key(j.doctype, j.docname, j.docname, Lower(target_lang))

\* Lines 157-160: the key the job saves a language under.
JobKey(j, target_lang) == Key(j.doctype, j.docname, j.version_id, Lower(target_lang))

\* The job as it enters its loop.
LoopJob(d, settings, map) ==
  [IdleJob EXCEPT
     !.pc = "loop", !.doctype = d[1], !.docname = d[2],
     !.version_id = get_version_id(d[1], d[2], docs[d].modified, now),
     !.target_languages = ParseTargets(settings.default_target_languages),
     !.fields_to_translate = FieldsToTranslate(d[2], map.field_mappings)]

\* The job as it returns before its loop.
AbortedJob(d, reason) ==
  [IdleJob EXCEPT !.pc = "done", !.doctype = d[1], !.docname = d[2], !.error = reason]

\* translate_to_all_languages, lines 93-142: everything before the loop.  The
\* settings and the map are read as the host holds them at that moment;
\* nothing is read after a call that raises or a check that returns.
JobStart ==
  /\ job.pc # "loop"
  /\ \E d \in DocKeys, fail \in JobFailures :
       IF fail = "get_doc_raises" THEN job' = AbortedJob(d, "exception")
       ELSE \E settings \in JobSettings :
         IF SettingsAbort(settings) # "" THEN job' = AbortedJob(d, SettingsAbort(settings))
         ELSE IF fail = "get_value_raises" THEN job' = AbortedJob(d, "exception")
         ELSE \E map \in MapLookups :
           IF ~map.found THEN job' = AbortedJob(d, "no active map")
           ELSE IF fail = "map_get_doc_raises" THEN job' = AbortedJob(d, "exception")
           ELSE IF MapAbort(d[2], map) # "" THEN job' = AbortedJob(d, MapAbort(d[2], map))
           ELSE job' = LoopJob(d, settings, map)
  /\ last' = [NoCall EXCEPT !.op = "job_start"]
  /\ UNCHANGED <<db, docs, now, hook, queue, vid, conc>>

\* Lines 145-167, one pass of the loop.  translate_text and
\* save_translation_to_store catch whatever is raised inside them, so nothing
\* reaches the except of line 164 and line 167 is never run.
JobLang ==
  /\ job.pc = "loop"
  /\ job.idx <= Len(job.target_languages)
  /\ LET target_lang == job.target_languages[job.idx]
         k == JobKey(job, target_lang)
         n == Len(job.fields_to_translate)
     IN \E resps \in [1 .. n -> Responses], outcome \in Outcomes,
           existing \in GetValue(db.work, k) :
          LET translated_fields == TranslatedFields(job.fields_to_translate, resps)
              saves == translated_fields # <<>>
              stored == saves /\ outcome = "ok"
              others == {e.lang : e \in job.saved} \ {target_lang}
          IN /\ saves \/ outcome = "ok"
             /\ (saves /\ existing = NoName) => Cardinality(db.work) < MaxRows
             /\ db' = IF saves
                        THEN save_translation_to_store(db, k, translated_fields,
                                                       existing, outcome, now)
                        ELSE db
             /\ job' = [job EXCEPT
                          !.idx = job.idx + 1,
                          !.saved =
                             IF stored
                               THEN {e \in job.saved : e.lang # target_lang}
                                    \cup {[lang |-> target_lang,
                                           content |-> JsonDumps(translated_fields)]}
                               ELSE job.saved,
                          !.hit = IF stored THEN job.hit ELSE job.hit \cup others,
                          !.provFailed =
                             IF saves THEN job.provFailed \ {target_lang}
                             ELSE job.provFailed \cup {target_lang},
                          !.storeFailed =
                             IF saves /\ outcome # "ok"
                               THEN job.storeFailed \cup {target_lang}
                               ELSE job.storeFailed]
             /\ last' = [op |-> "job_lang", k |-> k,
                         arg |-> JsonDumps(translated_fields),
                         outcome |-> IF ~saves THEN "not_saved"
                                     ELSE IF outcome = "ok" THEN "ok" ELSE "raised",
                         existing |-> existing, prev |-> "none"]
  /\ UNCHANGED <<docs, now, hook, queue, vid, conc>>

\* The loop is over and translate_to_all_languages returns.
JobReturn ==
  /\ job.pc = "loop"
  /\ job.idx > Len(job.target_languages)
  /\ job' = [job EXCEPT !.pc = "done"]
  /\ last' = [NoCall EXCEPT !.op = "job_return"]
  /\ UNCHANGED <<db, docs, now, hook, queue, vid, conc>>

\* ------------------------------------------------------------------ direct calls
\* The keys and contents the store writers are called with outside the job.
ManualVersion ==
  get_version_id("Article", "A2", [kind |-> "datetime", sec |-> 0, usec |-> "000000"], 0)

CallKeys ==
  {Key(d[1], d[2], get_version_id(d[1], d[2], docs[d].modified, now), "en") : d \in DocKeys}
  \cup {Key("Article", "A2", ManualVersion, "en")}

Contents == {<<<<"title", "Hello">>>>, <<<<"title", "Salut">>>>}

\* save_translation_to_store(doctype, docname, version_id, language, translated_content)
SaveCall ==
  /\ job.pc # "loop"
  /\ \E k \in CallKeys, c \in Contents, outcome \in Outcomes :
     \E existing \in GetValue(db.work, k) :
       /\ existing = NoName => Cardinality(db.work) < MaxRows
       /\ db' = save_translation_to_store(db, k, c, existing, outcome, now)
       /\ last' = [op |-> "save", k |-> k, arg |-> JsonDumps(c),
                   outcome |-> IF outcome = "ok" THEN "ok" ELSE "raised",
                   existing |-> existing,
                   prev |-> IF last.op = "save" /\ last.outcome = "ok" /\ last.k = k
                              THEN IF last.arg = JsonDumps(c) THEN "same" ELSE "other"
                              ELSE "none"]
  /\ UNCHANGED <<docs, now, hook, queue, vid, conc>>
  /\ job' = IdleJob

\* update_translation_status(doctype, docname, version_id, language, status)
MarkCall ==
  /\ job.pc # "loop"
  /\ \E k \in CallKeys, status \in Statuses, outcome \in Outcomes :
     \E existing \in GetValue(db.work, k) :
       /\ existing = NoName => Cardinality(db.work) < MaxRows
       /\ db' = update_translation_status(db, k, status, existing, outcome)
       /\ last' = [op |-> "mark", k |-> k, arg |-> status,
                   outcome |-> IF outcome = "ok" THEN "ok" ELSE "raised",
                   existing |-> existing, prev |-> "none"]
  /\ UNCHANGED <<docs, now, hook, queue, vid, conc>>
  /\ job' = IdleJob

\* ------------------------------------------------------------------ the host
\* A second later the host saves a document: its modified timestamp moves on,
\* and so does what datetime.now() returns.
DocTouch ==
  /\ job.pc # "loop"
  /\ now < MaxTime
  /\ \E d \in DocKeys :
       docs' = [docs EXCEPT ![d].modified =
                  [kind |-> "datetime", sec |-> now + 1, usec |-> "000000"]]
  /\ now' = now + 1
  /\ last' = [NoCall EXCEPT !.op = "touch"]
  /\ UNCHANGED <<db, hook, queue, vid, conc>>
  /\ job' = IdleJob

\* ------------------------------------------------------------------ Spec
\* A row a user has overridden by hand before the model starts.
ManualRow ==
  [name |-> <<"A2", ManualVersion, "en", 1>>, parent_doctype |-> "Article",
   parent_name |-> "A2", version_id |-> ManualVersion,
   language |-> "en", translated_content |-> JsonDumps(<<<<"title", "Hand">>>>),
   translation_status |-> "Completed", edit_mode |-> 1, last_translated |-> "None"]

IdleHook == [op |-> "none"]
IdleVid == [pc |-> "none"]
IdleConc == [pc |-> "none"]

\* Everything but the store at the start: the document as first saved, no job,
\* no call made, an empty queue.
InitRest ==
  /\ docs = [d \in DocKeys |-> [modified |-> [kind |-> "datetime", sec |-> 0,
                                              usec |-> "000000"]]]
  /\ now = 0
  /\ job = IdleJob
  /\ last = NoCall
  /\ hook = IdleHook
  /\ queue = <<>>
  /\ vid = IdleVid
  /\ conc = IdleConc

Init ==
  /\ \E rows \in {{}, {ManualRow}} : db = [committed |-> rows, work |-> rows]
  /\ InitRest

Next == JobStart \/ JobLang \/ JobReturn \/ SaveCall \/ MarkCall \/ DocTouch

Spec == Init /\ [][Next]_vars

\* ------------------------------------------------------------------ claims under Spec
JobReturned == job.pc = "done" /\ job.error = ""

\* A row without its last_translated timestamp.
Proj(r) ==
  [name |-> r.name, k |-> KeyOf(r), translated_content |-> r.translated_content,
   translation_status |-> r.translation_status, edit_mode |-> r.edit_mode]

\* C1: in every state reached by store-writer calls and job runs made one after
\* the other, no two rows of the store share (parent_doctype, parent_name,
\* version_id, language).
C1_OneRowPerKey ==
  \A r1 \in db.committed, r2 \in db.committed : KeyOf(r1) = KeyOf(r2) => r1 = r2

\* The job has just stored a language whose row was there already, a re-run.
C1_Witness ==
  /\ last.op = "job_lang" /\ last.outcome = "ok" /\ last.existing # NoName
  /\ Cardinality(db.committed) = MaxRows

\* C2: a language the job has stored keeps its row, Completed and with the
\* content the job stored for it, whatever fails for the other languages after
\* it; and the job returns only after it has gone through every language.
C2_Isolation ==
  /\ job.pc \in {"loop", "done"} =>
       \A a \in job.hit :
         \E e \in job.saved :
           /\ e.lang = a
           /\ \E r \in db.committed :
                /\ KeyOf(r) = JobKey(job, a)
                /\ r.translation_status = "Completed"
                /\ r.translated_content = e.content
  /\ JobReturned => job.idx = Len(job.target_languages) + 1

\* EN was stored, then the store call for FR raised and was rolled back, then
\* no translation came back for DE, and the job has returned.
C2_Witness ==
  /\ JobReturned
  /\ "EN" \in job.hit /\ "FR" \in job.storeFailed /\ "DE" \in job.provFailed

\* C3: when the job returns, every language for which the provider gave no
\* usable translation has a row keyed by the lower-case code, with status
\* Failed and content {}.
C3_FailureRecorded ==
  JobReturned =>
    \A l \in job.provFailed :
      \E r \in db.committed :
        /\ KeyOf(r) = JobKey(job, l)
        /\ r.translation_status = "Failed"
        /\ r.translated_content = "{}"

\* C4: a save that commits leaves exactly one row for its key, Completed and
\* with the content of that call; and a second commit of the same call leaves
\* the rows, their content, status and edit_mode as the first left them.
C4_Upsert ==
  /\ [](last.op = "save" /\ last.outcome = "ok" =>
          /\ Cardinality(Matches(db.committed, last.k)) = 1
          /\ \A r \in Matches(db.committed, last.k) :
               /\ r.translated_content = last.arg
               /\ r.translation_status = "Completed")
  /\ [][(last'.op = "save" /\ last'.outcome = "ok" /\ last'.prev = "same") =>
          {Proj(r) : r \in db'.committed} = {Proj(r) : r \in db.committed}]_vars

\* A save has overwritten the content that the save before it stored under
\* the same key.
C4_Witness == last.op = "save" /\ last.outcome = "ok" /\ last.prev = "other"

\* C5: a status update that commits adds, for a key without a row, exactly one
\* row with content {}, the status given and edit_mode 0; for a key with a row
\* it changes that row's translation_status and nothing else, in any row.
C5_MarkStatus ==
  [][(last'.op = "mark" /\ last'.outcome = "ok") =>
       IF Matches(db.committed, last'.k) = {}
         THEN /\ db.committed \subseteq db'.committed
              /\ Cardinality(db'.committed \ db.committed) = 1
              /\ \A r \in db'.committed \ db.committed :
                   /\ KeyOf(r) = last'.k
                   /\ r.translated_content = "{}"
                   /\ r.translation_status = last'.arg
                   /\ r.edit_mode = 0
         ELSE db'.committed =
                {IF KeyOf(r) = last'.k
                   THEN [r EXCEPT !.translation_status = last'.arg]
                   ELSE r : r \in db.committed}]_vars

\* A status update has set Failed on a row that holds translated content, next
\* to a second row.
C5_Witness ==
  /\ last.op = "mark" /\ last.outcome = "ok" /\ last.existing # NoName
  /\ \E r \in db.committed :
       /\ KeyOf(r) = last.k
       /\ r.translation_status = "Failed"
       /\ r.translated_content # "{}"
  /\ Cardinality(db.committed) = MaxRows

\* C9: no step removes a row, and a step of the job adds or changes only rows
\* of its document under the version id of the document's modified timestamp;
\* rows under other version ids and of other documents stay as they are.
C9_RevisionSafety ==
  [][/\ \A r \in db.committed :
          \E r2 \in db'.committed : r2.name = r.name /\ KeyOf(r2) = KeyOf(r)
     /\ job.pc = "loop" =>
          /\ \A r2 \in db'.committed \ db.committed :
               /\ r2.parent_doctype = job.doctype
               /\ r2.parent_name = job.docname
               /\ r2.version_id =
                    get_version_id(job.doctype, job.docname,
                                   docs[<<job.doctype, job.docname>>].modified, now)
          /\ \A r \in db.committed :
               (r.parent_name # job.docname \/ r.version_id # job.version_id)
                 => r \in db'.committed]_vars

\* The job has stored a language of the document while the store holds a row
\* of the same document under an earlier version id.
C9_Witness ==
  /\ last.op = "job_lang" /\ last.outcome = "ok"
  /\ \E r \in db.committed :
       /\ r.parent_name = job.docname
       /\ r.version_id # job.version_id

\* ------------------------------------------------------------------ the hooks
\* The documents the host loads and saves, and what doc._changed may hold
\* (a document without the attribute gives the default, the empty list).
HookDocs == {<<"Article", "A1">>, <<"Note", "A2">>}

ChangedLists == {<<>>, <<"title">>, <<"internal_id">>, <<"body", "title">>}

\* What the hooks read: the settings with every combination of the two flags.
HookSettings ==
  {st \in SettingsValues :
     st = NoSettings
     \/ (st.api_key = "K" /\ st.default_source_language = "en"
         /\ st.default_target_languages = <<"">>)}

\* Which host call of a hook raises, and what: frappe.DoesNotExistError or
\* another Exception.
NoFail == [at |-> "none", exc |-> ""]

HookFailures ==
  {NoFail} \cup [at : {"get_value", "get_doc", "enqueue"},
                 exc : {"DoesNotExistError", "Exception"}]

InList(x, list) == \E i \in 1 .. Len(list) : list[i] = x

\* A mutant of RelevantFieldsChanged: the translate flag is not looked at.
RelevantIgnoresTranslate(field_mappings, changed_fields) ==
  \E i \in 1 .. Len(field_mappings) : InList(field_mappings[i].field_name, changed_fields)

\* Lines 63-69: a mapping with translate set names a changed field.
RelevantFieldsChanged(field_mappings, changed_fields) ==
  \E i \in 1 .. Len(field_mappings) :
    /\ field_mappings[i].translate = 1
    /\ InList(field_mappings[i].field_name, changed_fields)

\* The try-block of on_doc_update, lines 43-79: the exception that leaves it
\* ("" when none does) and the jobs it has enqueued by then.
UpdateBody(doctype, name, settings, map, changed_fields, fail) ==
  LET done == [exc |-> "", enqueued |-> <<>>]
      raise == [exc |-> fail.exc, enqueued |-> <<>>]
  IN IF settings = NoSettings THEN done
     ELSE IF settings.enable_auto_translation = 0 THEN done
     ELSE IF settings.auto_translate_on_update = 0 THEN done
     ELSE IF fail.at = "get_value" THEN raise
     ELSE IF ~map.found THEN done
     ELSE IF fail.at = "get_doc" THEN raise
     ELSE IF map.field_mappings = <<>> THEN done
     ELSE IF ~RelevantFieldsChanged(map.field_mappings, changed_fields) THEN done
     ELSE IF fail.at = "enqueue" THEN raise
     ELSE [exc |-> "", enqueued |-> <<[doctype |-> doctype, docname |-> name]>>]

\* A mutant of Handler: only frappe.DoesNotExistError is caught.
HandlerOnlyDoesNotExist(exc) ==
  IF exc = "" THEN "none" ELSE IF exc = "DoesNotExistError" THEN "pass" ELSE "propagate"

\* The except-clauses of both hooks: DoesNotExistError is passed over, any
\* other Exception is logged; nothing is re-raised.
Handler(exc) ==
  IF exc = "" THEN "none" ELSE IF exc = "DoesNotExistError" THEN "pass" ELSE "log"

\* on_doc_update(doc, method)
on_doc_update(doctype, name, settings, map, changed_fields, fail) ==
  LET b == UpdateBody(doctype, name, settings, map, changed_fields, fail)
  IN [op |-> "on_doc_update", doctype |-> doctype, name |-> name,
      settings |-> settings, map |-> map, changed |-> changed_fields,
      exc |-> b.exc, enqueued |-> b.enqueued,
      returned |-> Handler(b.exc) # "propagate",
      logged |-> settings = NoSettings \/ Handler(b.exc) = "log",
      original_language |-> "absent"]

\* The try-block of on_doc_load, lines 20-29: the exception that leaves it and
\* the document's original_language after it ("absent" when it has none).
LoadBody(map, original_language, lang, fail) ==
  IF fail.at = "get_value" THEN [exc |-> fail.exc, original_language |-> original_language]
  ELSE IF map.found /\ original_language = "absent"
    THEN [exc |-> "", original_language |-> IF lang # "" THEN lang ELSE "de"]
    ELSE [exc |-> "", original_language |-> original_language]

\* on_doc_load(doc, method); lang is frappe.local.lang, "" when it is None.
on_doc_load(doctype, name, map, original_language, lang, fail) ==
  LET b == LoadBody(map, original_language, lang, fail)
  IN [op |-> "on_doc_load", doctype |-> doctype, name |-> name,
      settings |-> NoSettings, map |-> map, changed |-> <<>>,
      exc |-> b.exc, enqueued |-> <<>>,
      returned |-> Handler(b.exc) # "propagate",
      logged |-> Handler(b.exc) = "log",
      original_language |-> b.original_language]

\* The host saves a document and calls the hook; frappe.enqueue puts the job
\* on the queue.
OnDocUpdate ==
  /\ \E d \in HookDocs, settings \in HookSettings, map \in MapLookups,
        changed_fields \in ChangedLists, fail \in HookFailures :
       LET h == on_doc_update(d[1], d[2], settings, map, changed_fields, fail)
       IN /\ Len(queue) + Len(h.enqueued) <= MaxQueue
          /\ hook' = h
          /\ queue' = queue \o h.enqueued
  /\ UNCHANGED <<db, docs, now, job, last, vid, conc>>

\* The host loads a document and calls the hook.
OnDocLoad ==
  /\ \E d \in HookDocs, map \in {NoMap, [NoMap EXCEPT !.found = TRUE]},
        original_language \in {"absent", "fr"}, lang \in {"", "en"},
        fail \in {f \in HookFailures : f.at \in {"none", "get_value"}} :
       hook' = on_doc_load(d[1], d[2], map, original_language, lang, fail)
  /\ UNCHANGED <<db, docs, now, job, last, queue, vid, conc>>

\* A worker takes the oldest job off the queue and runs it.
WorkerTakes ==
  /\ queue # <<>>
  /\ queue' = Tail(queue)
  /\ UNCHANGED <<db, docs, now, job, last, hook, vid, conc>>

InitHooks == db = [committed |-> {}, work |-> {}] /\ InitRest

NextHooks == OnDocUpdate \/ OnDocLoad \/ WorkerTakes

SpecHooks == InitHooks /\ [][NextHooks]_vars

\* ------------------------------------------------------------------ claims under SpecHooks
\* The four conditions of on_doc_update, on what the hook call was given.
UpdateConditions ==
  /\ hook.settings # NoSettings
  /\ hook.settings.enable_auto_translation = 1
  /\ hook.settings.auto_translate_on_update = 1
  /\ hook.map.found
  /\ \E i \in 1 .. Len(hook.map.field_mappings) :
       /\ hook.map.field_mappings[i].translate = 1
       /\ InList(hook.map.field_mappings[i].field_name, hook.changed)

HookJob == <<[doctype |-> hook.doctype, docname |-> hook.name]>>

\* C6: a call of on_doc_update in which no host call raises enqueues exactly
\* one job, for the document's doctype and name, when the four conditions hold
\* and none otherwise; no call enqueues anything unless they hold, and none
\* does with auto_translate_on_update off.
C6_EnqueueIff ==
  hook.op = "on_doc_update" =>
    /\ hook.exc = "" => hook.enqueued = (IF UpdateConditions THEN HookJob ELSE <<>>)
    /\ hook.enqueued # <<>> => UpdateConditions /\ hook.enqueued = HookJob
    /\ (hook.settings # NoSettings /\ hook.settings.auto_translate_on_update = 0)
         => hook.enqueued = <<>>

\* The hook has enqueued the job for the saved document, filling the queue.
C6_Witness ==
  /\ hook.op = "on_doc_update" /\ hook.enqueued = HookJob
  /\ Len(queue) = MaxQueue

\* C8 as stated: both hooks return to the host whatever raises, every such
\* failure is logged, and on_doc_update enqueues nothing then.
C8_CaughtAndLogged ==
  hook.op # "none" =>
    /\ hook.returned
    /\ (hook.exc # "" \/ (hook.op = "on_doc_update" /\ hook.settings = NoSettings))
         => hook.logged /\ hook.enqueued = <<>>

\* C8 as amended: both hooks return to the host whatever raises and
\* on_doc_update enqueues nothing then; the failure is logged unless it is a
\* frappe.DoesNotExistError, which is passed over without a log entry.
C8_Caught ==
  hook.op # "none" =>
    /\ hook.returned
    /\ (hook.exc # "" \/ (hook.op = "on_doc_update" /\ hook.settings = NoSettings))
         => /\ hook.enqueued = <<>>
            /\ hook.logged <=> hook.exc # "DoesNotExistError"

\* frappe.enqueue has raised in on_doc_update and the hook has returned.
C8_Witness ==
  /\ hook.op = "on_doc_update" /\ hook.exc = "Exception" /\ hook.returned
  /\ hook.settings # NoSettings /\ UpdateConditions

\* ------------------------------------------------------------------ SpecVid
\* get_version_id on two documents, one call after the other; the clock may
\* move between the calls.
VidDocs == [doctype : DocTypes, name : DocNames, modified : Modifieds]

InitVid ==
  /\ db = [committed |-> {}, work |-> {}]
  /\ docs = [d \in DocKeys |-> [modified |-> [kind |-> "datetime", sec |-> 0,
                                              usec |-> "000000"]]]
  /\ now = 0 /\ job = IdleJob /\ last = NoCall /\ hook = IdleHook /\ queue = <<>>
  /\ conc = IdleConc
  /\ \E d1 \in VidDocs, d2 \in VidDocs :
       vid = [pc |-> "first", d1 |-> d1, d2 |-> d2, id1 |-> "", id2 |-> ""]

VidFirst ==
  /\ vid.pc = "first"
  /\ vid' = [vid EXCEPT !.pc = "second",
                        !.id1 = get_version_id(vid.d1.doctype, vid.d1.name,
                                               vid.d1.modified, now)]
  /\ UNCHANGED <<db, docs, now, job, last, hook, queue, conc>>

VidSecond ==
  /\ vid.pc = "second"
  /\ vid' = [vid EXCEPT !.pc = "done",
                        !.id2 = get_version_id(vid.d2.doctype, vid.d2.name,
                                               vid.d2.modified, now)]
  /\ UNCHANGED <<db, docs, now, job, last, hook, queue, conc>>

\* A second passes between the two calls.
VidTick ==
  /\ vid.pc = "second"
  /\ now < MaxTime
  /\ now' = now + 1
  /\ UNCHANGED <<db, docs, job, last, hook, queue, vid, conc>>

NextVid == VidFirst \/ VidSecond \/ VidTick

SpecVid == InitVid /\ [][NextVid]_vars

\* ------------------------------------------------------------------ claims under SpecVid
\* Both ids are computed, for one doctype and name, with modified present.
VidComparable ==
  /\ vid.pc = "done"
  /\ vid.d1.doctype = vid.d2.doctype /\ vid.d1.name = vid.d2.name
  /\ vid.d1.modified # NoModified /\ vid.d2.modified # NoModified

VersionString(d) == d.doctype \o "_" \o d.name \o "_" \o ModifiedStr(d.modified)

\* C7 as stated: with modified present, equal (doctype, name, modified) give
\* equal ids, and the same doctype and name with different modified
\* timestamps give different ids.
C7_ModifiedDecidesId ==
  VidComparable =>
    /\ vid.d1.modified = vid.d2.modified => vid.id1 = vid.id2
    /\ vid.d1.modified # vid.d2.modified => vid.id1 # vid.id2

\* C7 as amended: with modified present, equal (doctype, name, modified) give
\* equal ids whatever the clock; so do timestamps that give the same
\* modified_str, as two datetimes within one second do; and timestamps that
\* give different modified_str give different ids wherever the 12-digit MD5
\* prefixes of the two version strings differ.
C7_ModifiedStrDecidesId ==
  VidComparable =>
    /\ vid.d1.modified = vid.d2.modified => vid.id1 = vid.id2
    /\ ModifiedStr(vid.d1.modified) = ModifiedStr(vid.d2.modified) => vid.id1 = vid.id2
    /\ (/\ ModifiedStr(vid.d1.modified) # ModifiedStr(vid.d2.modified)
        /\ Md5Hex12(VersionString(vid.d1)) # Md5Hex12(VersionString(vid.d2)))
         => vid.id1 # vid.id2

\* Two datetimes of one second, microseconds apart, have got one id; the clock
\* has moved between the calls.
C7_Witness ==
  /\ VidComparable
  /\ vid.d1.modified.kind = "datetime" /\ vid.d2.modified.kind = "datetime"
  /\ vid.d1.modified.sec = MaxTime /\ vid.d2.modified.sec = MaxTime
  /\ vid.d1.modified.usec # vid.d2.modified.usec
  /\ vid.id1 = vid.id2
  /\ now = MaxTime

\* ------------------------------------------------------------------ SpecConc
\* Two workers run save_translation_to_store for one key at the same time, as
\* two deliveries of the job for one document do.  Each worker's lookup and
\* its write with the commit are separate steps; a lookup sees what is
\* committed.
Workers == {1, 2}

ConcKeys ==
  {Key("Article", "A1",
       get_version_id("Article", "A1",
                      [kind |-> "datetime", sec |-> 0, usec |-> "000000"], 0), l)
     : l \in {"en", "fr"}}

InitConc ==
  /\ docs = [d \in DocKeys |-> [modified |-> [kind |-> "datetime", sec |-> 0,
                                              usec |-> "000000"]]]
  /\ now = 0 /\ job = IdleJob /\ last = NoCall /\ hook = IdleHook /\ queue = <<>>
  /\ vid = IdleVid
  /\ \E k \in ConcKeys, c1 \in Contents, c2 \in Contents, before \in {"none", "row"} :
       /\ conc = [pc |-> <<"lookup", "lookup">>, k |-> k, content |-> <<c1, c2>>,
                  existing |-> <<NoName, NoName>>, raised |-> <<FALSE, FALSE>>,
                  lastWrite |-> 0]
       /\ LET rows == IF before = "none" THEN {}
                      ELSE StatusWrite({}, k, "Failed", NoName)
          IN db = [committed |-> rows, work |-> rows]

\* Lines 242-251 in worker w.
ConcLookup(w) ==
  /\ conc.pc[w] = "lookup"
  /\ \E raises \in BOOLEAN :
       IF raises
         THEN /\ conc' = [conc EXCEPT !.pc[w] = "done", !.raised[w] = TRUE]
              /\ db' = Rollback(db)
         ELSE /\ \E existing \in GetValue(db.committed, conc.k) :
                   conc' = [conc EXCEPT !.pc[w] = "write", !.existing[w] = existing]
              /\ db' = db
  /\ UNCHANGED <<docs, now, job, last, hook, queue, vid>>

\* Lines 253-279 in worker w.
ConcWrite(w) ==
  /\ conc.pc[w] = "write"
  /\ \E outcome \in Outcomes \ {"get_value_raises"} :
       /\ db' = save_translation_to_store(db, conc.k, conc.content[w],
                                          conc.existing[w], outcome, now)
       /\ conc' = [conc EXCEPT !.pc[w] = "done",
                               !.raised[w] = outcome # "ok",
                               !.lastWrite = IF outcome = "ok" THEN w ELSE conc.lastWrite]
  /\ UNCHANGED <<docs, now, job, last, hook, queue, vid>>

NextConc == \E w \in Workers : ConcLookup(w) \/ ConcWrite(w)

SpecConc == InitConc /\ [][NextConc]_vars

\* ------------------------------------------------------------------ claims under SpecConc
\* C10: when both workers are through and a write has gone in, the store holds
\* exactly one row for the key, with the content of the write that came last.
C10_LastWriteWins ==
  (conc.pc = <<"done", "done">> /\ conc.lastWrite # 0) =>
    /\ Cardinality(Matches(db.committed, conc.k)) = 1
    /\ \A r \in Matches(db.committed, conc.k) :
         r.translated_content = JsonDumps(conc.content[conc.lastWrite])

====
